---- MODULE Spec2Model ----
(***************************************************************************)
(* Model of src/app.py: a Flask service with a liveness probe (/health)    *)
(* and a text-analysis endpoint (/analyze).                                *)
(*                                                                         *)
(* Python str values are tuples of one-character strings, so that split(), *)
(* strip(), len() and the substring test are computed, not assumed.        *)
(* Names written in the source (field names, messages, header values) are  *)
(* TLA+ strings.                                                           *)
(***************************************************************************)
EXTENDS Integers, Sequences, FiniteSets, TLC

VARIABLES
    request,    \* the request handled last (NoRequest before the first)
    response,   \* the response sent for it
    steps,      \* the statements executed while handling it, in order
    log,        \* the newest MaxLog lines written by the process-wide logger
    first       \* the first exchange of the run (used by SpecIdem only)

vars == <<request, response, steps, log, first>>

(***************************************************************************)
(* Bounds.                                                                 *)
(***************************************************************************)
\* longest text enumerated exhaustively over Alphabet
MaxLen == 3
\* number of log lines kept
MaxLog == 1

(***************************************************************************)
(* Characters and strings.                                                 *)
(***************************************************************************)
\* characters str.split() and str.strip() treat as whitespace
Whitespace == {" ", "\t", "\n"}

Alphabet == {"a", " "}

RECURSIVE StringsUpTo(_)
StringsUpTo(n) ==
    IF n = 0 THEN {<<>>}
    ELSE LET shorter == StringsUpTo(n - 1)
         IN  shorter \cup {Append(s, c) : s \in {t \in shorter : Len(t) = n - 1}, c \in Alphabet}

\* "I love cloud engineering!", the text of the docstring example
ExampleText ==
    <<"I", " ", "l", "o", "v", "e", " ",
      "c", "l", "o", "u", "d", " ",
      "e", "n", "g", "i", "n", "e", "e", "r", "i", "n", "g", "!">>

\* "\ta \n b ": leading, trailing and repeated whitespace of several kinds
MixedText == <<"\t", "a", " ", "\n", " ", "b", " ">>

Texts == StringsUpTo(MaxLen) \cup {ExampleText, MixedText}

\* the literal 'text' of lines 41 and 44, as a field name and as a str
FieldName == "text"
FieldChars == <<"t", "e", "x", "t">>

(***************************************************************************)
(* JSON documents as they arrive on the wire, and the Python values        *)
(* json.loads turns them into.                                             *)
(***************************************************************************)
JNull == [j |-> "null"]
JNumber(n) == [j |-> "number", n |-> n]
JBoolean(b) == [j |-> "boolean", b |-> b]
JString(s) == [j |-> "string", s |-> s]
JArray(items) == [j |-> "array", items |-> items]
\* members: a sequence of <<name, document>> pairs, in the order written
JObject(members) == [j |-> "object", members |-> members]

PyNone == [py |-> "NoneType"]
PyInt(n) == [py |-> "int", n |-> n]
PyBool(b) == [py |-> "bool", b |-> b]
PyStr(s) == [py |-> "str", s |-> s]
PyList(items) == [py |-> "list", items |-> items]
\* d: a function from the keys to their values
PyDict(d) == [py |-> "dict", d |-> d]

\* json.loads on a well-formed document; a repeated member name keeps its last value
RECURSIVE json_loads(_)
json_loads(doc) ==
    CASE doc.j = "null" -> PyNone
      [] doc.j = "number" -> PyInt(doc.n)
      [] doc.j = "boolean" -> PyBool(doc.b)
      [] doc.j = "string" -> PyStr(doc.s)
      [] doc.j = "array" ->
            PyList([i \in 1..Len(doc.items) |-> json_loads(doc.items[i])])
      [] doc.j = "object" ->
            LET m == doc.members
                names == {m[i][1] : i \in 1..Len(m)}
                last(k) == CHOOSE i \in 1..Len(m) :
                               /\ m[i][1] = k
                               /\ \A h \in (i + 1)..Len(m) : m[h][1] # k
            IN  PyDict([k \in names |-> json_loads(m[last(k)][2])])

(***************************************************************************)
(* Requests.                                                               *)
(***************************************************************************)
\* request bodies: no bytes, bytes that are not JSON, a JSON document
EmptyBody == [kind |-> "empty"]
MalformedBody == [kind |-> "malformed"]
JsonBody(doc) == [kind |-> "json", doc |-> doc]

\* declared content types: type/subtype, with the subtype's +suffix apart
ApplicationJson == [type |-> "application", subtype |-> "json", suffix |-> ""]
ApplicationLdJson == [type |-> "application", subtype |-> "ld", suffix |-> "json"]
TextPlain == [type |-> "text", subtype |-> "plain", suffix |-> ""]
NoContentType == [type |-> "", subtype |-> "", suffix |-> ""]

ContentTypes == {ApplicationJson, ApplicationLdJson, TextPlain, NoContentType}

TextObject(s) == JObject(<< <<FieldName, JString(s)>> >>)

\* documents that are not objects
NonObjectDocs ==
    { JNull, JNumber(123), JBoolean(TRUE),
      JString(<<"a">>), JString(FieldChars \o <<"s">>),
      JArray(<<>>), JArray(<<JString(FieldChars)>>) }

\* objects without the key 'text'
NoTextDocs ==
    { JObject(<<>>),
      JObject(<< <<"name", JString(<<"a">>)>> >>),
      JObject(<< <<"Text", JString(<<"a">>)>> >>) }

\* objects whose 'text' is not a string
NonStringTextDocs ==
    { JObject(<< <<FieldName, v>> >>) :
        v \in {JNumber(123), JBoolean(TRUE), JObject(<<>>), JArray(<<>>), JNull} }

\* objects whose 'text' is a string
StringTextDocs ==
    {TextObject(s) : s \in Texts}
    \cup { JObject(<< <<FieldName, JString(<<"a">>)>>, <<"name", JNumber(1)>> >>),
           JObject(<< <<FieldName, JNumber(1)>>, <<FieldName, JString(<<"a", " ", "a">>)>> >>) }

Bodies ==
    {EmptyBody, MalformedBody}
    \cup {JsonBody(d) : d \in NonObjectDocs \cup NoTextDocs \cup NonStringTextDocs \cup StringTextDocs}

\* bodies sent with the content types other than application/json
FewBodies ==
    { EmptyBody, MalformedBody, JsonBody(JObject(<<>>)),
      JsonBody(JObject(<< <<FieldName, JNumber(123)>> >>)),
      JsonBody(TextObject(<<"a", " ", "a">>)) }

Methods == {"GET", "POST", "HEAD", "OPTIONS", "PUT", "DELETE"}
Paths == {"/health", "/analyze", "/nonexistent"}

Req(m, p, ct, b) == [method |-> m, path |-> p, ctype |-> ct, body |-> b]

AnalyzePosts ==
    {Req("POST", "/analyze", ApplicationJson, b) : b \in Bodies}
    \cup {Req("POST", "/analyze", ct, b) : ct \in ContentTypes \ {ApplicationJson}, b \in FewBodies}

OtherRequests ==
    { Req(m, p, NoContentType, EmptyBody) : m \in Methods, p \in Paths }
    \cup { Req(m, p, ApplicationJson, JsonBody(TextObject(<<"a", " ", "a">>))) :
             m \in {"GET", "HEAD"}, p \in Paths }

Requests == AnalyzePosts \cup OtherRequests

(***************************************************************************)
(* Python operations the handler uses.                                     *)
(***************************************************************************)
NoException == [type |-> "none", message |-> ""]
BadRequest == [type |-> "BadRequest", message |-> "400 Bad Request: Failed to decode JSON object"]
TypeError(msg) == [type |-> "TypeError", message |-> msg]

Value(v) == [exc |-> NoException, value |-> v]
Raise(e) == [exc |-> e, value |-> PyNone]

\* str.lstrip()
RECURSIVE lstrip(_)
lstrip(s) ==
    IF s # <<>> /\ Head(s) \in Whitespace THEN lstrip(Tail(s)) ELSE s

\* str.rstrip()
RECURSIVE rstrip(_)
rstrip(s) ==
    IF s # <<>> /\ s[Len(s)] \in Whitespace THEN rstrip(SubSeq(s, 1, Len(s) - 1)) ELSE s

\* str.strip()
strip(s) == lstrip(rstrip(s))

\* the length of the longest prefix of s without whitespace
RECURSIVE WordEnd(_)
WordEnd(s) ==
    IF s = <<>> \/ Head(s) \in Whitespace THEN 0 ELSE 1 + WordEnd(Tail(s))

\* str.split() on runs of whitespace, which never returns an empty word
RECURSIVE split_ws(_)
split_ws(s) ==
    LET rest == lstrip(s)
        n == WordEnd(rest)
    IN  IF rest = <<>> THEN <<>>
        ELSE <<SubSeq(rest, 1, n)>> \o split_ws(SubSeq(rest, n + 1, Len(rest)))

\* str.split(' ') in place of str.split(): cuts at every single whitespace
\* character and keeps the empty pieces
RECURSIVE split_space(_)
split_space(s) ==
    LET n == WordEnd(s)
    IN  IF n = Len(s) THEN <<s>>
        ELSE <<SubSeq(s, 1, n)>> \o split_space(SubSeq(s, n + 2, Len(s)))

\* text.split(), line 51
split(s) == split_ws(s)

\* sub in s, for two str
IsSubstring(sub, s) ==
    \E i \in 0..(Len(s) - Len(sub)) : SubSeq(s, i + 1, i + Len(sub)) = sub

\* 'text' in data, line 41
contains_text(data) ==
    CASE data.py = "dict" -> Value(FieldName \in DOMAIN data.d)
      [] data.py = "str" -> Value(IsSubstring(FieldChars, data.s))
      [] data.py = "list" ->
            Value(\E i \in 1..Len(data.items) : data.items[i] = PyStr(FieldChars))
      [] OTHER -> Raise(TypeError("argument of type '" \o data.py \o "' is not iterable"))

\* data['text'], line 44, reached only when 'text' in data
getitem_text(data) ==
    CASE data.py = "dict" -> Value(data.d[FieldName])
      [] data.py = "str" -> Raise(TypeError("string indices must be integers"))
      [] data.py = "list" ->
            Raise(TypeError("list indices must be integers or slices, not str"))
      [] OTHER -> Raise(TypeError("'" \o data.py \o "' object is not subscriptable"))

\* isinstance(text, str), line 47
isinstance_str(v) == v.py = "str"

\* request.is_json: application/json or application/<x>+json
is_json(req) ==
    /\ req.ctype.type = "application"
    /\ \/ req.ctype.subtype = "json" /\ req.ctype.suffix = ""
       \/ req.ctype.suffix = "json"

\* request.get_json(), line 38, reached only when request.is_json
get_json(req) ==
    IF req.body.kind = "json" THEN Value(json_loads(req.body.doc)) ELSE Raise(BadRequest)

\* jsonify(...)
jsonify(obj) == [mimetype |-> "application/json", json |-> obj]

\* what a handler hands back: the response, the statements run, the lines logged
Outcome(st, status, body, lines) ==
    [status |-> status, body |-> body, steps |-> st, emitted |-> lines]

\* the info line with its two numbers in the wrong order
InfoLine_swapped(words, chars) ==
    [level |-> "INFO", fmt |-> "Analyzed text with {} words and {} characters",
     args |-> <<chars, words>>]

InfoLine(words, chars) ==
    [level |-> "INFO", fmt |-> "Analyzed text with {} words and {} characters",
     args |-> <<words, chars>>]
ErrorLine(e) ==
    [level |-> "ERROR", fmt |-> "Error processing request: {}", args |-> <<e.message>>]

(***************************************************************************)
(* The view functions and error handlers.                                  *)
(***************************************************************************)
\* health_check, lines 12-14
health_check(req) ==
    Outcome(<<"health_check", "return">>, 200, jsonify([status |-> "healthy"]), <<>>)

\* a 400 answer of analyze_text: jsonify({"error": ...}), 400
reject(st, message) ==
    Outcome(st \o <<"return">>, 400, jsonify([error |-> message]), <<>>)

\* line 36
bad_content_type(st) == reject(st, "Content-Type must be application/json")

\* line 42 with the message of line 48
missing_field_as_wrong_type(st) == reject(st, "Field 'text' must be a string")

\* line 42
missing_field(st) == reject(st, "Missing required field: text")

\* line 48 with the message of line 42
wrong_type_as_missing(st) == reject(st, "Missing required field: text")

\* line 48
wrong_type(st) == reject(st, "Field 'text' must be a string")

\* lines 50-62 with character_count leaving the whitespace out
analysis_nonspace(st, text) ==
    LET word_count == IF strip(text) # <<>> THEN Len(split(text)) ELSE 0
        character_count == Len(SelectSeq(text, LAMBDA c : c \notin Whitespace))
        resp == [original_text |-> text,
                 word_count |-> word_count,
                 character_count |-> character_count]
    IN  Outcome(st \o <<"analysis", "logger.info", "return">>, 200, jsonify(resp),
                <<InfoLine(word_count, character_count)>>)

\* lines 50-62 with the word count of the request before, when the log holds one
analysis_stale(st, text) ==
    LET fresh == IF strip(text) # <<>> THEN Len(split(text)) ELSE 0
        word_count == IF log # <<>> /\ log[Len(log)].level = "INFO"
                      THEN log[Len(log)].args[1] ELSE fresh
        character_count == Len(text)
        resp == [original_text |-> text,
                 word_count |-> word_count,
                 character_count |-> character_count]
    IN  Outcome(st \o <<"analysis", "logger.info", "return">>, 200, jsonify(resp),
                <<InfoLine(word_count, character_count)>>)

\* lines 50-62: the analysis of a str, the info line, the 200 answer
analysis(st, text) ==
    LET word_count == IF strip(text) # <<>> THEN Len(split(text)) ELSE 0
        character_count == Len(text)
        resp == [original_text |-> text,
                 word_count |-> word_count,
                 character_count |-> character_count]
    IN  Outcome(st \o <<"analysis", "logger.info", "return">>, 200, jsonify(resp),
                <<InfoLine(word_count, character_count)>>)

\* lines 64-66 answering with str(e)
except_clause_leaks(st, e) ==
    Outcome(st \o <<"logger.error", "return">>, 500,
            jsonify([error |-> e.message]), <<ErrorLine(e)>>)

\* lines 64-66: except Exception as e
except_clause(st, e) ==
    Outcome(st \o <<"logger.error", "return">>, 500,
            jsonify([error |-> "Internal server error"]), <<ErrorLine(e)>>)

\* analyze_text, lines 17-66
analyze_text(req) ==
    LET s1 == <<"analyze_text", "request.is_json">>
        s2 == s1 \o <<"request.get_json">>
        s3 == s2 \o <<"'text' in data">>
        s4 == s3 \o <<"data['text']">>
        s5 == s4 \o <<"isinstance">>
    IN  IF ~is_json(req) THEN bad_content_type(s1)
        ELSE LET got == get_json(req) IN
        IF got.exc # NoException THEN except_clause(s2, got.exc)
        ELSE LET has == contains_text(got.value) IN
        IF has.exc # NoException THEN except_clause(s3, has.exc)
        ELSE IF ~has.value THEN missing_field(s3)
        ELSE LET item == getitem_text(got.value) IN
        IF item.exc # NoException THEN except_clause(s4, item.exc)
        ELSE IF ~isinstance_str(item.value) THEN wrong_type(s5)
        ELSE analysis(s5, item.value.s)

\* not_found, lines 68-70
not_found(req) ==
    Outcome(<<"not_found", "return">>, 404, jsonify([error |-> "Endpoint not found"]), <<>>)

\* lines 72-74 with the answer of not_found
method_not_allowed_as_not_found(req) ==
    Outcome(<<"method_not_allowed", "return">>, 404,
            jsonify([error |-> "Endpoint not found"]), <<>>)

\* method_not_allowed, lines 72-74
method_not_allowed(req) ==
    Outcome(<<"method_not_allowed", "return">>, 405,
            jsonify([error |-> "Method not allowed"]), <<>>)

(***************************************************************************)
(* Routing: the rules the two @app.route lines register.                   *)
(***************************************************************************)
Routes == {"/health", "/analyze"}

\* the methods= argument of each route
declared_methods(path) == IF path = "/health" THEN {"GET"} ELSE {"POST"}

\* Flask adds HEAD to a rule that takes GET, and OPTIONS to every rule
allowed_methods(path) ==
    declared_methods(path)
    \cup (IF "GET" \in declared_methods(path) THEN {"HEAD"} ELSE {})
    \cup {"OPTIONS"}

NoRequest == Req("", "", NoContentType, EmptyBody)
NoBody == [mimetype |-> "", json |-> <<>>]
NoResponse == [status |-> 0, body |-> NoBody, allow |-> {}]
NoExchange == [req |-> NoRequest, resp |-> NoResponse]

\* the newest n elements of seq
LastN(seq, n) ==
    IF Len(seq) <= n THEN seq ELSE SubSeq(seq, Len(seq) - n + 1, Len(seq))

\* the response goes out and the lines logged meanwhile are in the log
Serve(req, out, body, allow) ==
    /\ request' = req
    /\ response' = [status |-> out.status, body |-> body, allow |-> allow]
    /\ steps' = out.steps
    /\ log' = LastN(log \o out.emitted, MaxLog)

(***************************************************************************)
(* Actions: one per way a request is dispatched.                           *)
(***************************************************************************)
\* GET or HEAD /health runs health_check; a HEAD response carries no body
ServeHealth(req) ==
    /\ req.path = "/health"
    /\ req.method \in allowed_methods(req.path) \ {"OPTIONS"}
    /\ LET out == health_check(req)
       IN  Serve(req, out, IF req.method = "HEAD" THEN NoBody ELSE out.body, {})

\* POST /analyze runs analyze_text
ServeAnalyze(req) ==
    /\ req.path = "/analyze"
    /\ req.method \in allowed_methods(req.path) \ {"OPTIONS"}
    /\ LET out == analyze_text(req)
       IN  Serve(req, out, out.body, {})

\* OPTIONS on a registered path is answered by Flask itself, no view runs
ServeOptions(req) ==
    /\ req.path \in Routes
    /\ req.method = "OPTIONS"
    /\ Serve(req, Outcome(<<>>, 200, NoBody, <<>>), NoBody, allowed_methods(req.path))

\* no rule matches the path: the 404 error handler
ServeNotFound(req) ==
    /\ req.path \notin Routes
    /\ LET out == not_found(req)
       IN  Serve(req, out, out.body, {})

\* a rule matches the path but not the method: the 405 error handler
ServeMethodNotAllowed(req) ==
    /\ req.path \in Routes
    /\ req.method \notin allowed_methods(req.path)
    /\ LET out == method_not_allowed(req)
       IN  Serve(req, out, out.body, {})

Init ==
    /\ request = NoRequest
    /\ response = NoResponse
    /\ steps = <<>>
    /\ log = <<>>
    /\ first = NoExchange

Next ==
    \/ \E req \in Requests : ServeHealth(req) /\ UNCHANGED first
    \/ \E req \in Requests : ServeAnalyze(req) /\ UNCHANGED first
    \/ \E req \in Requests : ServeOptions(req) /\ UNCHANGED first
    \/ \E req \in Requests : ServeNotFound(req) /\ UNCHANGED first
    \/ \E req \in Requests : ServeMethodNotAllowed(req) /\ UNCHANGED first

Spec == Init /\ [][Next]_vars

(***************************************************************************)
(* The same service with the first exchange of the run kept beside it, so  *)
(* that a later answer to the same request can be compared with it.  The   *)
(* requests are one or two of each kind.                                   *)
(***************************************************************************)
SampleRequests ==
    { Req("POST", "/analyze", ApplicationJson, b) :
        b \in { EmptyBody, MalformedBody, JsonBody(JNull), JsonBody(JArray(<<>>)),
                JsonBody(JObject(<<>>)),
                JsonBody(JObject(<< <<FieldName, JNumber(123)>> >>)),
                JsonBody(TextObject(<<>>)),
                JsonBody(TextObject(<<"a", " ", "a">>)),
                JsonBody(TextObject(ExampleText)) } }
    \cup { Req("POST", "/analyze", ct, JsonBody(TextObject(<<"a", " ", "a">>))) :
             ct \in {ApplicationLdJson, TextPlain} }
    \cup { Req(m, p, NoContentType, EmptyBody) :
             m \in {"GET", "OPTIONS", "PUT"}, p \in Paths }

\* the first exchange of the run stays on record
Remember(req) ==
    first' = IF first = NoExchange THEN [req |-> req, resp |-> response'] ELSE first

NextIdem ==
    \/ \E req \in SampleRequests : ServeHealth(req) /\ Remember(req)
    \/ \E req \in SampleRequests : ServeAnalyze(req) /\ Remember(req)
    \/ \E req \in SampleRequests : ServeOptions(req) /\ Remember(req)
    \/ \E req \in SampleRequests : ServeNotFound(req) /\ Remember(req)
    \/ \E req \in SampleRequests : ServeMethodNotAllowed(req) /\ Remember(req)

SpecIdem == Init /\ [][NextIdem]_vars

(***************************************************************************)
(* Vocabulary of the properties.                                           *)
(***************************************************************************)
Range(seq) == {seq[i] : i \in 1..Len(seq)}

\* the positions of statement x in the statements run
Positions(x) == {i \in 1..Len(steps) : steps[i] = x}

\* statement x ran, and ran before statement y did
RanBefore(x, y) ==
    /\ Positions(x) # {}
    /\ \A i \in Positions(x), k \in Positions(y) : i < k

IsAnalyzePost == request.method = "POST" /\ request.path = "/analyze"

DeclaresJson == request.ctype = ApplicationJson

IsObjectBody == request.body.kind = "json" /\ request.body.doc.j = "object"

\* the values an object gives to 'text'
TextValues(doc) ==
    {doc.members[i][2] : i \in {h \in 1..Len(doc.members) : doc.members[h][1] = FieldName}}

ErrorBody(message) == [mimetype |-> "application/json", json |-> [error |-> message]]

\* the words of s: the places where a run of non-whitespace characters starts
WordStarts(s) ==
    {i \in 1..Len(s) : s[i] \notin Whitespace /\ (i = 1 \/ s[i - 1] \in Whitespace)}

ExampleRequest == Req("POST", "/analyze", ApplicationJson, JsonBody(TextObject(ExampleText)))

(***************************************************************************)
(* Properties.                                                             *)
(***************************************************************************)

\* C1: a POST /analyze that declares application/json and whose body does not
\* parse as a JSON object (no JSON at all, or JSON that is not an object) is
\* answered 400, never 500.
C1_UnparsableBodyIs400 ==
    (IsAnalyzePost /\ DeclaresJson /\ ~IsObjectBody) => response.status = 400

C4_OtherContentTypeRejected ==
    (IsAnalyzePost /\ ~DeclaresJson) =>
        /\ response.status = 400
        /\ response.body = ErrorBody("Content-Type must be application/json")
        /\ "request.get_json" \notin Range(steps)
        /\ "analysis" \notin Range(steps)

\* C5: a POST /analyze that declares application/json and whose body is a JSON
\* object giving 'text' a value that is not a string is answered 400 "Field
\* 'text' must be a string", and no count is computed.
C5_NonStringTextRejected ==
    ( /\ IsAnalyzePost /\ DeclaresJson /\ IsObjectBody
      /\ TextValues(request.body.doc) # {}
      /\ \A v \in TextValues(request.body.doc) : v.j # "string" ) =>
        /\ response.status = 400
        /\ response.body = ErrorBody("Field 'text' must be a string")
        /\ "analysis" \notin Range(steps)
        /\ "logger.info" \notin Range(steps)

\* C5 witness: {"text": null} was rejected after the type check.
C5_Witness ==
    /\ request = Req("POST", "/analyze", ApplicationJson,
                     JsonBody(JObject(<< <<FieldName, JNull>> >>)))
    /\ response.status = 400
    /\ "isinstance" \in Range(steps)

\* C6: a POST /analyze that declares application/json and whose body is a JSON
\* object without the key 'text' is answered 400 "Missing required field:
\* text"; the missing-field check runs after the content-type check and before
\* the type check.
C6_MissingTextRejected ==
    /\ ( /\ IsAnalyzePost /\ DeclaresJson /\ IsObjectBody
         /\ TextValues(request.body.doc) = {} ) =>
            /\ response.status = 400
            /\ response.body = ErrorBody("Missing required field: text")
            /\ RanBefore("request.is_json", "'text' in data")
            /\ "isinstance" \notin Range(steps)
    /\ "'text' in data" \in Range(steps) => RanBefore("request.is_json", "'text' in data")
    /\ "isinstance" \in Range(steps) => RanBefore("'text' in data", "isinstance")

\* C6 witness: {} was rejected by the missing-field check.
C6_Witness ==
    /\ request = Req("POST", "/analyze", ApplicationJson, JsonBody(JObject(<<>>)))
    /\ response.status = 400
    /\ steps[Len(steps) - 1] = "'text' in data"

Fails(req) ==
    /\ is_json(req)
    /\ \/ get_json(req).exc # NoException
       \/ /\ get_json(req).exc = NoException
          /\ \/ contains_text(get_json(req).value).exc # NoException
             \/ /\ contains_text(get_json(req).value).exc = NoException
                /\ contains_text(get_json(req).value).value
                /\ getitem_text(get_json(req).value).exc # NoException

C9_SameRequestSameResponse ==
    (first # NoExchange /\ request = first.req) => response = first.resp

\* C9 witness: a request that was rejected came again after a request that
\* wrote to the log.
C9_Witness ==
    /\ first # NoExchange
    /\ request = first.req
    /\ first.resp.status = 400
    /\ log # <<>>

\* C10: logging is the only side effect of analyze_text: an answer of 200 comes
\* with exactly one info line, written before the answer and carrying the
\* answer's word_count and character_count; an answer of 400 comes with no
\* line and leaves the log as it was.
C10_OnlyLogging ==
    [][ /\ (IsAnalyzePost' /\ response'.status = 200) =>
              /\ log' = LastN(Append(log,
                            [level |-> "INFO",
                             fmt |-> "Analyzed text with {} words and {} characters",
                             args |-> <<response'.body.json.word_count,
                                        response'.body.json.character_count>>]),
                          MaxLog)
              /\ Cardinality({i \in 1..Len(steps') : steps'[i] = "logger.info"}) = 1
              /\ "logger.error" \notin Range(steps')
              /\ steps'[Len(steps') - 1] = "logger.info"
              /\ steps'[Len(steps')] = "return"
        /\ (IsAnalyzePost' /\ response'.status = 400) =>
              /\ log' = log
              /\ "logger.info" \notin Range(steps')
              /\ "logger.error" \notin Range(steps')
      ]_vars

\* C10 witness: an analysis was answered 200 and its line, with the numbers of
\* the answer, is the newest of the log.
C10_Witness ==
    /\ request = Req("POST", "/analyze", ApplicationJson, JsonBody(TextObject(MixedText)))
    /\ response.status = 200
    /\ log[Len(log)].level = "INFO"
    /\ log[Len(log)].args = <<2, 7>>
    /\ log[Len(log)].args = <<response.body.json.word_count, response.body.json.character_count>>

====
